---------------------------- MODULE Spec2Model ----------------------------
(***************************************************************************)
(* pst2pdf: the threading/ordering core (normalizeSubject, groupByThread), *)
(* the message loader (parseEmails) and the command-line driver (main,     *)
(* processSinglePst), modelled from the batch-capable version of the tool. *)
(*                                                                         *)
(* A JavaScript string is a sequence of one-character strings, so that     *)
(* trim, the prefix regular expression and toLowerCase are computed        *)
(* character by character, as the engine computes them.                    *)
(***************************************************************************)
EXTENDS Integers, Sequences, FiniteSets, TLC

VARIABLES
    \* one call of normalizeSubject
    subj,        \* the argument: a string, or Undefined
    normalized,  \* the value returned
    nsPc         \* "idle" | "call" | "done"

VARIABLES
    \* one call of groupByThread
    emails,      \* the argument: the records, in discovery order
    threads,     \* the value returned
    grpPc        \* "idle" | "call" | "done"

VARIABLES
    \* one call of runReadPst
    readpstBin,  \* the argument: the tool path given to spawn
    child,       \* what the spawned process does: launched or not, the
                 \* chunks it writes on stderr, the code it closes with
    pending,     \* the events of the child not yet delivered, in order
    err,         \* the local array `err`: the stderr chunks received
    promise,     \* the promise of line 53: state and value
    settleCalls, \* the calls of resolve and reject so far
    spawnCount,  \* the calls of spawn so far
    rpPc         \* "idle" | "mkdir" | "spawn" | "events" | "done"

VARIABLES
    \* one call of parseEmails
    emlFiles,    \* the argument: per file, what reading and parsing it gives
    maxEmails,   \* the argument: the limit, 0 for none
    fileIdx,     \* the loop variable i: the files passed so far
    parsed,      \* the local array `emails`, returned at the end
    attempted,   \* the files given to readFile, by index, in order
    warnings,    \* the console.warn lines written, by file index
    loadPc       \* "idle" | "loop" | "done"

VARIABLES
    \* main: the argument loop
    args,        \* process.argv.slice(2)
    opts,        \* the option variables of main after the loop
    argPc        \* "idle" | "parse" | "done"

VARIABLES
    \* main after the argument loop, and processSinglePst
    inputPst,    \* the positional argument, or Null
    workdir,     \* the value of -w, or Null
    keepWorkdir, \* --keep-workdir was read
    helpAsked,   \* -h or --help is among the arguments
    entries,     \* what readdir(srcDir) listed (batch mode)
    pstFiles,    \* the entries that end in .pst, in listing order
    loopIdx,     \* the archives of pstFiles the batch loop has passed
    mainPc,      \* "idle" | "start" | "batchLoop" | "awaitBatch" |
                 \* "awaitSingle" | "exit"
    procPc,      \* processSinglePst: "idle" | "begin" | "extract" | "list" |
                 \* "load" | "render" | "finally" | "resolved" | "rejected"
    thrown,      \* the step of processSinglePst that threw, or "none"
    rmResult,    \* fsp.rm in the finally block: "none" | "ok" | "failed"
    workdirMade, \* the working directory was created and not removed since
    started,     \* the archives processSinglePst was called for, in order
    results,     \* per archive that ended: "ok" or the step that threw
    reported,    \* the console.error lines of main
    exitCode,    \* the exit code of the process (0 unless set)
    extractDir,  \* the .eml files in path.join(workdir, "eml"): name, and
                 \* the archive the tool wrote it for
    emlListed,   \* the local emlFiles: what listFilesRecursively returned
    rendered     \* the files whose records are given to renderPdf

nsVars == <<subj, normalized, nsPc>>
grpVars == <<emails, threads, grpPc>>
loadVars ==
    <<emlFiles, maxEmails, fileIdx, parsed, attempted, warnings, loadPc>>
argVars == <<args, opts, argPc>>
rpVars ==
    <<readpstBin, child, pending, err, promise, settleCalls, spawnCount, rpPc>>
mainVars ==
    <<inputPst, workdir, keepWorkdir, helpAsked, entries, pstFiles, loopIdx,
      mainPc, procPc, thrown, rmResult, workdirMade, started, results,
      reported, exitCode, extractDir, emlListed, rendered>>

vars == <<nsVars, grpVars, loadVars, argVars, mainVars, rpVars>>

\* ------------------------------------------------------------------------
\* Bounds
\* ------------------------------------------------------------------------

\* a subject is built from at most this many pieces of SubjectPieces
MaxPieces == 5
\* groupByThread is given at most this many records
MaxEmails == 3
\* a record's date is 0 (the epoch, new Date(0)) .. MaxDate
MaxDate == 1
\* parseEmails is given at most this many files
MaxFiles == 3
\* the limit given to parseEmails is -1 .. MaxLimit
MaxLimit == 2
\* the command line holds at most this many arguments
MaxArgs == 3
\* the batch input directory holds at most this many entries
MaxEntries == 2
\* the extraction tool writes at most this many chunks on its error stream
MaxChunks == 2
\* the command line of a run of main holds at most this many arguments
MaxMainArgs == 4

\* ------------------------------------------------------------------------
\* Strings
\* ------------------------------------------------------------------------

\* the value of an absent header (mail.subject === undefined): no string
Undefined == <<"undefined">>

Str_NoSubject == <<"(", "n", "o", " ", "s", "u", "b", "j", "e", "c", "t", ")">>

\* the value null
Null == <<"null">>

UpperLetters == <<"R", "E", "F", "W", "D", "H", "X", "N", "S", "P", "T", "B">>
LowerLetters == <<"r", "e", "f", "w", "d", "h", "x", "n", "s", "p", "t", "b">>

\* String.prototype.toLowerCase, one character
toLowerChar(c) ==
    IF \E k \in 1..Len(UpperLetters) : UpperLetters[k] = c
    THEN LowerLetters[CHOOSE k \in 1..Len(UpperLetters) : UpperLetters[k] = c]
    ELSE c

\* String.prototype.toLowerCase
toLowerCase(s) == [k \in 1..Len(s) |-> toLowerChar(s[k])]

\* the regular expression class \s, and the white space trim() removes
IsSpace(c) == c \in {" ", "\t"}

\* the first index >= i of s that holds no white space (Len(s)+1 when none)
RECURSIVE SkipSpaces(_, _)
SkipSpaces(s, i) ==
    IF i <= Len(s) /\ IsSpace(s[i]) THEN SkipSpaces(s, i + 1) ELSE i

\* the last index <= j of s that holds no white space (0 when none)
RECURSIVE SkipSpacesBack(_, _)
SkipSpacesBack(s, j) ==
    IF j >= 1 /\ IsSpace(s[j]) THEN SkipSpacesBack(s, j - 1) ELSE j

\* String.prototype.trim
trim(s) == SubSeq(s, SkipSpaces(s, 1), SkipSpacesBack(s, Len(s)))

\* ------------------------------------------------------------------------
\* normalizeSubject
\* ------------------------------------------------------------------------

\* the alternatives of (re|fw|fwd), in the order the engine tries them
PrefixWords == << <<"r", "e">>, <<"f", "w">>, <<"f", "w", "d">> >>

\* word w matches s at index i, ignoring case (flag i)
MatchWordAt(s, i, w) ==
    /\ i + Len(w) - 1 <= Len(s)
    /\ toLowerCase(SubSeq(s, i, i + Len(w) - 1)) = w

\* /^\s*(re|fw|fwd)\s*:\s*/i with alternative w: the index after the match,
\* 0 when this alternative fails
MatchPrefixWith(s, w) ==
    LET i == SkipSpaces(s, 1)
    IN  IF ~MatchWordAt(s, i, w) THEN 0
        ELSE LET j == SkipSpaces(s, i + Len(w))
             IN  IF j <= Len(s) /\ s[j] = ":" THEN SkipSpaces(s, j + 1) ELSE 0

\* /^\s*(re|fw|fwd)\s*:\s*/i on s: the index after the match, 0 for no match;
\* the first alternative that lets the whole pattern match wins
MatchPrefix(s) ==
    IF \E k \in 1..Len(PrefixWords) : MatchPrefixWith(s, PrefixWords[k]) # 0
    THEN LET k == CHOOSE k \in 1..Len(PrefixWords) :
                      /\ MatchPrefixWith(s, PrefixWords[k]) # 0
                      /\ \A m \in 1..(k - 1) : MatchPrefixWith(s, PrefixWords[m]) = 0
         IN  MatchPrefixWith(s, PrefixWords[k])
    ELSE 0

\* a plausible slip: the pattern applied until it matches no more (a /g-like
\* loop), which strips every leading marker
RECURSIVE StripPrefix_all(_)
StripPrefix_all(s) ==
    IF MatchPrefix(s) = 0 THEN s
    ELSE StripPrefix_all(SubSeq(s, MatchPrefix(s), Len(s)))

\* s.replace(/^\s*(re|fw|fwd)\s*:\s*/i, ""): the pattern is anchored and not
\* global, so at most one match is replaced
StripPrefix(s) ==
    IF MatchPrefix(s) = 0 THEN s ELSE SubSeq(s, MatchPrefix(s), Len(s))

\* a plausible slip: the final `|| "(no subject)"` left out
OrNoSubject_missing(s) == s

\* s || "(no subject)"
OrNoSubject(s) == IF s = <<>> THEN Str_NoSubject ELSE s

normalizeSubject(s) ==
    IF s = Undefined \/ s = <<>> THEN Str_NoSubject
    ELSE OrNoSubject(StripPrefix(trim(s)))

\* ------------------------------------------------------------------------
\* Inputs of normalizeSubject
\* ------------------------------------------------------------------------

SubjectPieces ==
    { <<"R", "e">>, <<"f", "w">>, <<"d">>, <<":">>, <<" ">>, <<"x">> }

RECURSIVE PiecesUpTo(_)
PiecesUpTo(n) ==
    IF n = 0 THEN { <<>> }
    ELSE LET shorter == PiecesUpTo(n - 1)
         IN  shorter \cup { p \o q : p \in shorter, q \in SubjectPieces }

Str_ReHello == <<"R", "e", ":", " ", "H", "e", "l", "l", "o">>
Str_REHello == <<"R", "E", ":", " ", " ", " ", "H", "e", "l", "l", "o">>
Str_Hello == <<"H", "e", "l", "l", "o">>
Str_ReFwdX == <<"R", "e", ":", " ", "F", "w", "d", ":", " ", "X">>
Str_FwdX == <<"F", "w", "d", ":", " ", "X">>
Str_Blank == <<" ", " ", " ">>
Str_Re == <<"R", "e", ":">>
Str_TabRe == <<"\t", "F", "W", " ", ":", "\t">>

SubjectExamples ==
    { Str_ReHello, Str_REHello, Str_Hello, Str_ReFwdX, Str_FwdX, Str_Blank,
      Str_Re, Str_TabRe }

\* the subjects of at most n pieces, the examples, and the absent subject
Subjects(n) == PiecesUpTo(n) \cup SubjectExamples \cup {Undefined}

\* ------------------------------------------------------------------------
\* One call of normalizeSubject
\* ------------------------------------------------------------------------

MainIdle ==
    /\ inputPst = Null /\ workdir = Null /\ keepWorkdir = FALSE
    /\ helpAsked = FALSE /\ entries = <<>> /\ pstFiles = <<>> /\ loopIdx = 0
    /\ mainPc = "idle" /\ procPc = "idle" /\ thrown = "none"
    /\ rmResult = "none" /\ workdirMade = FALSE /\ started = <<>>
    /\ results = <<>> /\ reported = <<>> /\ exitCode = 0
    /\ extractDir = {} /\ emlListed = {} /\ rendered = {}

ArgIdle == args = <<>> /\ opts = <<>> /\ argPc = "idle"

LoadIdle ==
    /\ emlFiles = <<>> /\ maxEmails = 0 /\ fileIdx = 0 /\ parsed = <<>>
    /\ attempted = <<>> /\ warnings = <<>> /\ loadPc = "idle"

GrpIdle == emails = <<>> /\ threads = <<>> /\ grpPc = "idle"

NsIdle == subj = <<>> /\ normalized = <<>> /\ nsPc = "idle"

RpIdle ==
    /\ readpstBin = <<>> /\ child = <<>> /\ pending = <<>> /\ err = <<>>
    /\ promise = <<>> /\ settleCalls = 0 /\ spawnCount = 0 /\ rpPc = "idle"

InitNormalize ==
    /\ subj \in Subjects(MaxPieces)
    /\ normalized = <<>>
    /\ nsPc = "call"
    /\ GrpIdle /\ LoadIdle /\ ArgIdle /\ MainIdle /\ RpIdle

CallNormalizeSubject ==
    /\ nsPc = "call"
    /\ normalized' = normalizeSubject(subj)
    /\ nsPc' = "done"
    /\ UNCHANGED <<subj, grpVars, loadVars, argVars, mainVars, rpVars>>

NextNormalize == CallNormalizeSubject

\* ------------------------------------------------------------------------
\* normalizeSubject: properties
\* ------------------------------------------------------------------------

\* m is one reply/forward marker and nothing else: "re", "fw" or "fwd" in any
\* letter case, optional white space, a colon, optional white space
IsMarker(m) ==
    \E k \in 1..Len(PrefixWords) : \E a \in 0..Len(m) :
        LET w == PrefixWords[k]
            colon == Len(w) + a + 1
        IN  /\ colon <= Len(m)
            /\ toLowerCase(SubSeq(m, 1, Len(w))) = w
            /\ \A i \in (Len(w) + 1)..(colon - 1) : IsSpace(m[i])
            /\ m[colon] = ":"
            /\ \A i \in (colon + 1)..Len(m) : IsSpace(m[i])

\* the lengths of the prefixes of t that are one marker
MarkerPrefixes(t) == { k \in 1..Len(t) : IsMarker(SubSeq(t, 1, k)) }

\* t with its leading marker (and the white space after it) cut off
AfterFirstMarker(t) ==
    LET k == CHOOSE k \in MarkerPrefixes(t) : \A m \in MarkerPrefixes(t) : m <= k
    IN  SubSeq(t, k + 1, Len(t))

\* C4: normalizeSubject removes at most one leading reply/forward marker from
\* the trimmed subject and never a second one: a subject without a leading
\* marker is returned trimmed, and a subject with one is returned from the
\* first character after that marker on, whatever follows it (a second
\* marker stays); "Re: Hello", "RE:   Hello" and "Hello" give "Hello", and
\* "Re: Fwd: X" gives "Fwd: X".
C4_StripsOneMarker ==
    nsPc = "done" /\ subj # Undefined /\ trim(subj) # <<>> =>
        LET t == trim(subj)
        IN  /\ MarkerPrefixes(t) = {} => normalized = t
            /\ MarkerPrefixes(t) # {} /\ AfterFirstMarker(t) # <<>> =>
                   normalized = AfterFirstMarker(t)
            /\ subj \in {Str_ReHello, Str_REHello, Str_Hello} =>
                   normalized = Str_Hello
            /\ subj = Str_ReFwdX => normalized = Str_FwdX

\* a subject with two leading markers was normalized: the second one is kept
C4_Witness ==
    /\ nsPc = "done"
    /\ subj = Str_ReFwdX
    /\ normalized = Str_FwdX
    /\ MarkerPrefixes(normalized) # {}

\* C5: normalizeSubject never returns the empty string, and returns the
\* "(no subject)" sentinel for an absent subject, an empty subject, a subject
\* of white space only and a subject that is nothing but one marker.
C5_NeverEmpty ==
    nsPc = "done" =>
        /\ normalized # <<>>
        /\ normalized # Undefined
        /\ (subj = Undefined \/ trim(subj) = <<>> \/ IsMarker(trim(subj))) =>
               normalized = Str_NoSubject

\* "Re:" was normalized to the sentinel
C5_Witness ==
    /\ nsPc = "done"
    /\ subj = Str_Re
    /\ normalized = Str_NoSubject

SpecNormalize == InitNormalize /\ [][NextNormalize]_vars

\* ------------------------------------------------------------------------
\* groupByThread
\* ------------------------------------------------------------------------

\* Array.prototype.sort(compareFn): stable (ECMAScript 2019, V8 since 7.0).
\* cmp[i, j] is compareFn(arr[i], arr[j]). Each element is put before the
\* first already placed element that compares greater than it, so elements
\* that compare equal keep their order. The result lists indices of arr.
RECURSIVE SortedIndices(_, _)
SortedIndices(cmp, n) ==
    IF n = 0 THEN <<>>
    ELSE LET done == SortedIndices(cmp, n - 1)
             after == { i \in 1..Len(done) : cmp[done[i], n] > 0 }
             p == IF after = {} THEN Len(done) + 1
                  ELSE CHOOSE i \in after : \A j \in after : i <= j
         IN  SubSeq(done, 1, p - 1) \o <<n>> \o SubSeq(done, p, Len(done))

StableSort(arr, cmp) ==
    LET order == SortedIndices(cmp, Len(arr))
    IN  [k \in 1..Len(arr) |-> arr[order[k]]]

\* a plausible slip: the key taken without toLowerCase()
ThreadKey_caseSensitive(e) == e.normalizedSubject

\* const key = e.normalizedSubject.toLowerCase()
ThreadKey(e) == toLowerCase(e.normalizedSubject)

\* if (!map.has(key)) map.set(key, []); map.get(key).push(e)
\* A Map keeps its keys in insertion order: a sequence of entries.
MapPush(map, e) ==
    IF \E k \in 1..Len(map) : map[k].key = ThreadKey(e)
    THEN LET k == CHOOSE k \in 1..Len(map) : map[k].key = ThreadKey(e)
         IN  [map EXCEPT ![k].arr = Append(@, e)]
    ELSE Append(map, [key |-> ThreadKey(e), arr |-> <<e>>])

\* for (const e of emails) { ... }
RECURSIVE BuildMap(_, _)
BuildMap(list, n) ==
    IF n = 0 THEN <<>> ELSE MapPush(BuildMap(list, n - 1), list[n])

\* a plausible slip: the comparator's operands exchanged
CompareDates_reversed(a, b) == b.date - a.date

\* (a, b) => a.date - b.date
CompareDates(a, b) == a.date - b.date

\* a plausible slip: threads compared by their last message
CompareThreads_byLast(a, b) ==
    a.emails[Len(a.emails)].date - b.emails[Len(b.emails)].date

\* (a, b) => a.emails[0].date - b.emails[0].date
CompareThreads(a, b) == a.emails[1].date - b.emails[1].date

\* arr.sort((a, b) => a.date - b.date)
SortEmails(arr) ==
    StableSort(arr, [i, j \in 1..Len(arr) |-> CompareDates(arr[i], arr[j])])

\* threads.sort((a, b) => a.emails[0].date - b.emails[0].date)
SortThreads(ts) ==
    StableSort(ts, [i, j \in 1..Len(ts) |-> CompareThreads(ts[i], ts[j])])

groupByThread(list) ==
    LET map == BuildMap(list, Len(list))
        sorted == [k \in 1..Len(map) |-> SortEmails(map[k].arr)]
        unordered == [k \in 1..Len(map) |->
                         [subject |-> sorted[k][1].normalizedSubject,
                          emails |-> sorted[k]]]
    IN  SortThreads(unordered)

\* ------------------------------------------------------------------------
\* One call of groupByThread
\* ------------------------------------------------------------------------

\* mail.subject of the records given to groupByThread
RawSubjects ==
    { Undefined, Str_ReHello, toLowerCase(Str_Hello), Str_FwdX }

\* the fields of a record that groupByThread reads, as parseEmails sets them:
\* file names the record (the k-th file discovered)
EmailOf(k, raw, d) ==
    [file |-> k, normalizedSubject |-> normalizeSubject(raw), date |-> d]

\* the lists of at most maxLen records
EmailLists(maxLen) ==
    UNION { { [k \in 1..n |-> EmailOf(k, f[k][1], f[k][2])] :
                f \in [1..n -> RawSubjects \X (0..MaxDate)] } :
            n \in 0..maxLen }

InitGroup ==
    /\ emails \in EmailLists(MaxEmails)
    /\ threads = <<>>
    /\ grpPc = "call"
    /\ NsIdle /\ LoadIdle /\ ArgIdle /\ MainIdle /\ RpIdle

CallGroupByThread ==
    /\ grpPc = "call"
    /\ threads' = groupByThread(emails)
    /\ grpPc' = "done"
    /\ UNCHANGED <<emails, nsVars, loadVars, argVars, mainVars, rpVars>>

NextGroup == CallGroupByThread

SpecGroup == InitGroup /\ [][NextGroup]_vars

\* ------------------------------------------------------------------------
\* groupByThread: properties
\* ------------------------------------------------------------------------

\* the places <<thread, position>> of the result
Places == { <<t, p>> \in (1..Len(threads)) \X (1..Len(emails)) :
              p <= Len(threads[t].emails) }

\* the places at which input record i is found
PlacesOf(i) == { tp \in Places : threads[tp[1]].emails[tp[2]] = emails[i] }

\* the index in the input of the record at a place
InputIndex(t, p) == threads[t].emails[p].file

\* the index in the input at which thread t's key was first encountered
FirstEncounter(t) ==
    CHOOSE i \in 1..Len(emails) :
        /\ \E p \in 1..Len(threads[t].emails) : InputIndex(t, p) = i
        /\ \A p \in 1..Len(threads[t].emails) : i <= InputIndex(t, p)

\* C1: groupByThread partitions its input by the case-folded normalized
\* subject: every input record is at exactly one place of the result, every
\* place holds an input record, no thread is empty, and two records share a
\* thread exactly when their normalized subjects are equal after case folding.
C1_Partition ==
    grpPc = "done" =>
        /\ \A i \in 1..Len(emails) : Cardinality(PlacesOf(i)) = 1
        /\ \A t \in 1..Len(threads) :
               /\ Len(threads[t].emails) >= 1
               /\ \A p \in 1..Len(threads[t].emails) :
                      \E i \in 1..Len(emails) : threads[t].emails[p] = emails[i]
        /\ \A i, j \in 1..Len(emails) :
               (\E a \in PlacesOf(i), b \in PlacesOf(j) : a[1] = b[1])
                   <=> toLowerCase(emails[i].normalizedSubject)
                         = toLowerCase(emails[j].normalizedSubject)

\* two records whose normalized subjects differ only by letter case share a
\* thread, next to a second thread
C1_Witness ==
    /\ grpPc = "done"
    /\ Len(threads) = 2
    /\ \E t \in 1..Len(threads) : \E p, q \in 1..Len(threads[t].emails) :
           /\ threads[t].emails[p].normalizedSubject = Str_Hello
           /\ threads[t].emails[q].normalizedSubject = toLowerCase(Str_Hello)

\* C2: in every thread, a message with an earlier timestamp is at an earlier
\* position, and messages with the same timestamp keep their input order.
C2_SortedStable ==
    grpPc = "done" =>
        \A t \in 1..Len(threads) : \A p, q \in 1..Len(threads[t].emails) :
            LET a == threads[t].emails[p]
                b == threads[t].emails[q]
            IN  /\ a.date < b.date => p < q
                /\ a.date = b.date /\ a.file < b.file => p < q

\* a thread of three holds a later record before an earlier one of the input
\* (sorted by date) and two records of one date in input order
C2_Witness ==
    /\ grpPc = "done"
    /\ \E t \in 1..Len(threads) :
           /\ Len(threads[t].emails) = 3
           /\ InputIndex(t, 1) > InputIndex(t, 2)
           /\ threads[t].emails[2].date = threads[t].emails[3].date

\* C3: of two threads, the one whose earliest message is earlier comes first,
\* and threads whose earliest messages have the same timestamp are in the
\* order in which their keys were first encountered in the input.
C3_ThreadOrder ==
    grpPc = "done" =>
        \A s, t \in 1..Len(threads) :
            LET a == threads[s].emails[1].date
                b == threads[t].emails[1].date
            IN  /\ a < b => s < t
                /\ a = b /\ FirstEncounter(s) < FirstEncounter(t) => s < t

\* three threads: the first was encountered last in the input, the other two
\* start at the same timestamp
C3_Witness ==
    /\ grpPc = "done"
    /\ Len(threads) = 3
    /\ FirstEncounter(1) > FirstEncounter(2)
    /\ threads[2].emails[1].date = threads[3].emails[1].date

\* ------------------------------------------------------------------------
\* runReadPst
\* ------------------------------------------------------------------------

\* tool paths: the name looked up on PATH, and a path given with -R
ToolPaths == {"readpst", "/opt/pst/readpst"}

\* chunks the tool can write on its error stream
Chunks == {"e1", "e2"}

\* what the tool writes on stderr before it closes: at most maxLen chunks
StderrOutputs(maxLen) == UNION { [1..n -> Chunks] : n \in 0..maxLen }

\* the codes a launched tool closes with
ExitCodes == {0, 1, 2}

\* the errors with which spawn fails to launch the tool: ENOENT (not found)
\* and EACCES (not executable), as negative errno values
SpawnErrnos == {-2, -13}

\* the processes spawn can give: one that could not be launched, or one
\* that runs, writes on stderr and closes with a code
Children(maxLen) ==
    { [launched |-> FALSE, errno |-> e, stderr |-> <<>>, code |-> e] :
        e \in SpawnErrnos }
    \cup
    { [launched |-> TRUE, errno |-> 0, stderr |-> s, code |-> c] :
        s \in StderrOutputs(maxLen), c \in ExitCodes }

\* the events of the process c in the order the runtime emits them: a
\* process that could not be spawned emits 'error' and then 'close' with the
\* negative errno as code; a launched one emits the 'data' of its stderr and,
\* once its streams are closed, 'close' with its exit code
EventsOf(c) ==
    IF c.launched
    THEN [k \in 1..Len(c.stderr) |-> [type |-> "data", chunk |-> c.stderr[k]]]
         \o << [type |-> "close", exit |-> c.code] >>
    ELSE << [type |-> "error", errno |-> c.errno],
            [type |-> "close", exit |-> c.code] >>

Pending == [state |-> "pending", kind |-> "none"]

\* resolve(outDir)
Fulfilled == [state |-> "fulfilled", kind |-> "outDir"]

\* new Error(`Failed to run readpst at '${readpstBin}': ${errEvt.message}`)
LaunchError(bin, errno) ==
    [state |-> "rejected", kind |-> "launch", path |-> bin, errno |-> errno]

\* new Error(`readpst failed (code ${exit})\n${Buffer.concat(err).toString()}`)
ExitError(exit, chunks) ==
    [state |-> "rejected", kind |-> "exit", code |-> exit, stderr |-> chunks]

\* the rejection of the async function when fsp.mkdir throws
MkdirError == [state |-> "rejected", kind |-> "mkdir"]

\* a plausible slip: a settlement that overwrites an earlier one (a callback
\* or a flag in place of the promise)
Settle_lastWins(v) ==
    /\ promise' = v
    /\ settleCalls' = settleCalls + 1

\* resolve(...) or reject(...) of the promise of line 53: the first call
\* settles it, a later call does nothing
Settle(v) ==
    /\ promise' = IF promise.state = "pending" THEN v ELSE promise
    /\ settleCalls' = settleCalls + 1

rpOthers == <<nsVars, grpVars, loadVars, argVars, mainVars>>

InitReadPst ==
    /\ readpstBin \in ToolPaths
    /\ child = <<>>
    /\ pending = <<>>
    /\ err = <<>>
    /\ promise = Pending
    /\ settleCalls = 0
    /\ spawnCount = 0
    /\ rpPc = "mkdir"
    /\ NsIdle /\ GrpIdle /\ LoadIdle /\ ArgIdle /\ MainIdle

\* await fsp.mkdir(outDir, { recursive: true }): when it throws, the async
\* function rejects before anything is spawned
RpMkdir ==
    /\ rpPc = "mkdir"
    /\ \E ok \in BOOLEAN :
           IF ok
           THEN rpPc' = "spawn" /\ UNCHANGED <<promise, settleCalls>>
           ELSE rpPc' = "done" /\ Settle(MkdirError)
    /\ UNCHANGED <<readpstBin, child, pending, err, spawnCount>>
    /\ UNCHANGED rpOthers

\* const child = spawn(readpstBin, args, ...); the handlers are attached
RpSpawn ==
    /\ rpPc = "spawn"
    /\ \E c \in Children(MaxChunks) :
           /\ child' = c
           /\ pending' = EventsOf(c)
    /\ spawnCount' = spawnCount + 1
    /\ rpPc' = "events"
    /\ UNCHANGED <<readpstBin, err, promise, settleCalls>>
    /\ UNCHANGED rpOthers

\* child.stderr.on("data", (d) => err.push(d))
RpOnStderrData ==
    /\ rpPc = "events"
    /\ pending # <<>>
    /\ Head(pending).type = "data"
    /\ err' = Append(err, Head(pending).chunk)
    /\ pending' = Tail(pending)
    /\ UNCHANGED <<readpstBin, child, promise, settleCalls, spawnCount, rpPc>>
    /\ UNCHANGED rpOthers

\* child.on("error", (errEvt) => { reject(new Error(...)) })
RpOnError ==
    /\ rpPc = "events"
    /\ pending # <<>>
    /\ Head(pending).type = "error"
    /\ Settle(LaunchError(readpstBin, Head(pending).errno))
    /\ pending' = Tail(pending)
    /\ UNCHANGED <<readpstBin, child, err, spawnCount, rpPc>>
    /\ UNCHANGED rpOthers

\* child.on("close", (exit) => { if (exit !== 0) reject(...) else resolve(outDir) })
RpOnClose ==
    /\ rpPc = "events"
    /\ pending # <<>>
    /\ Head(pending).type = "close"
    /\ IF Head(pending).exit # 0
       THEN Settle(ExitError(Head(pending).exit, err))
       ELSE Settle(Fulfilled)
    /\ pending' = Tail(pending)
    /\ UNCHANGED <<readpstBin, child, err, spawnCount, rpPc>>
    /\ UNCHANGED rpOthers

\* return await new Promise(...): the function ends as its promise ended
RpReturn ==
    /\ rpPc = "events"
    /\ pending = <<>>
    /\ rpPc' = "done"
    /\ UNCHANGED <<readpstBin, child, pending, err, promise, settleCalls,
                   spawnCount>>
    /\ UNCHANGED rpOthers

NextReadPst ==
    RpMkdir \/ RpSpawn \/ RpOnStderrData \/ RpOnError \/ RpOnClose \/ RpReturn

SpecReadPst == InitReadPst /\ [][NextReadPst]_vars

\* ------------------------------------------------------------------------
\* runReadPst: properties
\* ------------------------------------------------------------------------

\* C11: each call of runReadPst settles exactly once and without retry (a
\* settled promise never changes, spawn is called at most once, the call has
\* settled when it ends); once settled after spawn, it has failed with an
\* error naming the attempted tool path when the tool could not be launched,
\* failed with an error carrying the exit code and all the tool wrote on
\* stderr when the tool closed with a code other than 0, and succeeded only
\* when the tool was launched and closed with code 0, although 'close'
\* follows 'error' and calls reject a second time.
C11_SettlesOnce ==
    /\ [][promise.state # "pending" => promise' = promise]_vars
    /\ [](rpPc # "idle" =>
             /\ spawnCount <= 1
             /\ rpPc = "done" => promise.state # "pending"
             /\ promise.state # "pending" /\ spawnCount = 1 =>
                    /\ ~child.launched =>
                           promise = LaunchError(readpstBin, child.errno)
                    /\ child.launched /\ child.code # 0 =>
                           promise = ExitError(child.code, child.stderr)
                    /\ child.launched /\ child.code = 0 => promise = Fulfilled
             /\ promise.state = "fulfilled" =>
                    spawnCount = 1 /\ child.launched /\ child.code = 0)

\* the tool was not found: 'error' rejected the promise, 'close' called
\* reject again, and the call ended with the launch error
C11_Witness ==
    /\ rpPc = "done"
    /\ spawnCount = 1
    /\ ~child.launched
    /\ settleCalls = 2
    /\ promise.kind = "launch"
    /\ promise.path = readpstBin

\* ------------------------------------------------------------------------
\* parseEmails
\* ------------------------------------------------------------------------

\* what simpleParser returns for a file that loads: subject and date, each
\* possibly absent (the other fields are copied and read by the renderer only)
\* ok is FALSE for a file on which readFile or simpleParser throws.
NoDate == -1

Mails ==
    { [ok |-> TRUE, subject |-> Str_ReHello, date |-> 1],
      [ok |-> TRUE, subject |-> Undefined, date |-> NoDate],
      [ok |-> FALSE, subject |-> Undefined, date |-> NoDate] }

\* the file lists of at most maxLen files
FileLists(maxLen) == UNION { [1..n -> Mails] : n \in 0..maxLen }

\* the record pushed for file k
RecordOf(k, mail) ==
    [file |-> k,
     subject |-> IF mail.subject = Undefined \/ mail.subject = <<>>
                 THEN Str_NoSubject ELSE mail.subject,
     normalizedSubject |-> normalizeSubject(mail.subject),
     date |-> IF mail.date = NoDate THEN 0 ELSE mail.date]

\* a plausible slip: the limit compared with the files passed, not with the
\* records kept
LimitReached_countsFiles == maxEmails # 0 /\ fileIdx >= maxEmails

\* maxEmails && emails.length >= maxEmails
LimitReached == maxEmails # 0 /\ Len(parsed) >= maxEmails

InitLoad ==
    /\ emlFiles \in FileLists(MaxFiles)
    /\ maxEmails \in -1..MaxLimit
    /\ fileIdx = 0
    /\ parsed = <<>>
    /\ attempted = <<>>
    /\ warnings = <<>>
    /\ loadPc = "loop"
    /\ NsIdle /\ GrpIdle /\ ArgIdle /\ MainIdle /\ RpIdle

\* if (maxEmails && emails.length >= maxEmails) break;  return emails
LoadBreak ==
    /\ loadPc = "loop"
    /\ fileIdx < Len(emlFiles)
    /\ LimitReached
    /\ loadPc' = "done"
    /\ UNCHANGED <<emlFiles, maxEmails, fileIdx, parsed, attempted, warnings>>
    /\ UNCHANGED <<nsVars, grpVars, argVars, mainVars, rpVars>>

\* the try block runs to its end: emails.push({...}); i++
LoadFileOk ==
    /\ loadPc = "loop"
    /\ fileIdx < Len(emlFiles)
    /\ ~LimitReached
    /\ emlFiles[fileIdx + 1].ok
    /\ attempted' = Append(attempted, fileIdx + 1)
    /\ parsed' = Append(parsed, RecordOf(fileIdx + 1, emlFiles[fileIdx + 1]))
    /\ fileIdx' = fileIdx + 1
    /\ UNCHANGED <<emlFiles, maxEmails, warnings, loadPc>>
    /\ UNCHANGED <<nsVars, grpVars, argVars, mainVars, rpVars>>

\* a plausible slip: no try/catch around the read and the parse, so that
\* the first bad file ends parseEmails with its error
LoadFileFail_uncaught ==
    /\ loadPc = "loop"
    /\ fileIdx < Len(emlFiles)
    /\ ~LimitReached
    /\ ~emlFiles[fileIdx + 1].ok
    /\ attempted' = Append(attempted, fileIdx + 1)
    /\ loadPc' = "failed"
    /\ UNCHANGED <<emlFiles, maxEmails, fileIdx, parsed, warnings>>
    /\ UNCHANGED <<nsVars, grpVars, argVars, mainVars, rpVars>>

\* readFile or simpleParser throws: catch (e) { console.warn(...) }; i++
LoadFileFail ==
    /\ loadPc = "loop"
    /\ fileIdx < Len(emlFiles)
    /\ ~LimitReached
    /\ ~emlFiles[fileIdx + 1].ok
    /\ attempted' = Append(attempted, fileIdx + 1)
    /\ warnings' = Append(warnings, fileIdx + 1)
    /\ fileIdx' = fileIdx + 1
    /\ UNCHANGED <<emlFiles, maxEmails, parsed, loadPc>>
    /\ UNCHANGED <<nsVars, grpVars, argVars, mainVars, rpVars>>

\* i < emlFiles.length fails: return emails
LoadReturn ==
    /\ loadPc = "loop"
    /\ fileIdx >= Len(emlFiles)
    /\ loadPc' = "done"
    /\ UNCHANGED <<emlFiles, maxEmails, fileIdx, parsed, attempted, warnings>>
    /\ UNCHANGED <<nsVars, grpVars, argVars, mainVars, rpVars>>

NextLoad == LoadBreak \/ LoadFileOk \/ LoadFileFail \/ LoadReturn

SpecLoad == InitLoad /\ [][NextLoad]_vars

\* ------------------------------------------------------------------------
\* parseEmails: properties
\* ------------------------------------------------------------------------

\* the files among the first k that load
LoadableUpTo(k) == { j \in 1..k : emlFiles[j].ok }

Min(a, b) == IF a <= b THEN a ELSE b

\* C6: with a maximum record count N >= 1 (0, the default, is no limit),
\* parseEmails returns exactly min(N, number of files that load) records,
\* files that fail to load not counting toward N, and at no time has a file
\* been read that comes after the file that produced the N-th record.
C6_Truncation ==
    maxEmails >= 1 =>
        /\ loadPc = "done" =>
               Len(parsed) = Min(maxEmails, Cardinality(LoadableUpTo(Len(emlFiles))))
        /\ \A n \in 1..Len(attempted) :
               Cardinality(LoadableUpTo(attempted[n] - 1)) < maxEmails

\* the limit 1 stopped the loader after a bad file and one record, with one
\* more file left unread
C6_Witness ==
    /\ loadPc = "done"
    /\ maxEmails = 1
    /\ Len(emlFiles) = 3
    /\ ~emlFiles[1].ok
    /\ emlFiles[3].ok
    /\ Len(parsed) = 1
    /\ attempted = <<1, 2>>

\* the files given to readFile that load, and those that do not, in order
OkAttempted == SelectSeq(attempted, LAMBDA j : emlFiles[j].ok)

BadAttempted == SelectSeq(attempted, LAMBDA j : ~emlFiles[j].ok)

\* C12: parseEmails never fails on a bad file; the files are taken in file
\* order, none skipped; every file that could not be read or parsed has one
\* warning and no record, every file that loaded has exactly one record, in
\* file order; and a bad file does not stop the loop: parseEmails ends with
\* every file tried unless the limit of C6 was reached.
C12_Tolerant ==
    /\ loadPc \in {"idle", "loop", "done"}
    /\ attempted = [k \in 1..Len(attempted) |-> k]
    /\ warnings = BadAttempted
    /\ parsed = [k \in 1..Len(OkAttempted) |->
                     RecordOf(OkAttempted[k], emlFiles[OkAttempted[k]])]
    /\ loadPc = "done" /\ (maxEmails = 0 \/ Len(parsed) < maxEmails) =>
           Len(attempted) = Len(emlFiles)

\* no limit, three files of which the second is bad: one warning for it,
\* and the records of the first and the third
C12_Witness ==
    /\ loadPc = "done"
    /\ maxEmails = 0
    /\ Len(emlFiles) = 3
    /\ emlFiles[1].ok /\ ~emlFiles[2].ok /\ emlFiles[3].ok
    /\ warnings = <<2>>
    /\ Len(parsed) = 2
    /\ parsed[1].file = 1 /\ parsed[2].file = 3

\* ------------------------------------------------------------------------
\* main: the command line
\* ------------------------------------------------------------------------

A_o == <<"-", "o">>
A_output == <<"-", "-", "o", "u", "t", "p", "u", "t">>
A_i == <<"-", "i">>
A_inputDir == <<"-", "-", "i", "n", "p", "u", "t", "-", "d", "i", "r">>
A_O == <<"-", "O">>
A_outputDir == <<"-", "-", "o", "u", "t", "p", "u", "t", "-", "d", "i", "r">>
A_R == <<"-", "R">>
A_readpstBin == <<"-", "-", "r", "e", "a", "d", "p", "s", "t", "-", "b", "i", "n">>
A_w == <<"-", "w">>
A_workdir == <<"-", "-", "w", "o", "r", "k", "d", "i", "r">>
A_keepWorkdir == <<"-", "-", "k", "e", "e", "p", "-", "w", "o", "r", "k", "d", "i", "r">>
A_maxEmails == <<"-", "-", "m", "a", "x", "-", "e", "m", "a", "i", "l", "s">>
A_h == <<"-", "h">>
A_help == <<"-", "-", "h", "e", "l", "p">>

\* arguments that are no option names: an archive path, a directory, a count
A_archive == <<"a", ".", "p", "s", "t">>
A_dir == <<"d">>
A_two == <<"2">>

\* the arguments a command line is made of (one spelling of each option,
\* and -i in both)
ArgTokens ==
    { A_o, A_i, A_inputDir, A_O, A_R, A_w, A_keepWorkdir, A_maxEmails, A_h,
      A_archive, A_dir, A_two }

\* the command lines of at most maxLen arguments
ArgLists(maxLen) == UNION { [1..n -> ArgTokens] : n \in 0..maxLen }

\* String.prototype.startsWith("-")
StartsWithDash(a) == Len(a) >= 1 /\ a[1] = "-"

Digits == <<"0", "1", "2", "3", "4", "5", "6", "7", "8", "9">>

IsDigit(c) == \E d \in 1..Len(Digits) : Digits[d] = c

DigitValue(c) == (CHOOSE d \in 1..Len(Digits) : Digits[d] = c) - 1

\* the value of the digits of a from index i on, after the value acc
RECURSIVE ReadDigits(_, _, _)
ReadDigits(a, i, acc) ==
    IF i <= Len(a) /\ IsDigit(a[i])
    THEN ReadDigits(a, i + 1, 10 * acc + DigitValue(a[i]))
    ELSE acc

\* parseInt(a, 10) || 0: white space, a sign, then digits up to the first
\* character that is none; NaN (no digit) and 0 both give 0
ParseIntOrZero(a) ==
    LET i == SkipSpaces(a, 1)
        signed == i <= Len(a) /\ a[i] \in {"-", "+"}
        j == IF signed THEN i + 1 ELSE i
        v == ReadDigits(a, j, 0)
    IN  IF j > Len(a) \/ ~IsDigit(a[j]) THEN 0
        ELSE IF signed /\ a[i] = "-" THEN 0 - v ELSE v

\* the option variables as main declares them
DefaultOpts ==
    [inputPst |-> Null, outPdf |-> Null, workdir |-> Null,
     keepWorkdir |-> FALSE, maxEmails |-> 0, inputDir |-> Null,
     outputDir |-> Null, readpstCli |-> Null, help |-> FALSE]

\* the index, counted from 0 as in the source, at which the loop starts
FirstLoopIndex == 1

\* args[i + 1] is truthy: present and not the empty string
HasValue(a, i) == i + 1 < Len(a) /\ a[i + 2] # <<>>

\* for (let i = ...; i < args.length; i++) { ... } from index i (counted
\* from 0; args[i] of the source is a[i + 1] here) with the variables o
RECURSIVE ArgLoop(_, _, _)
ArgLoop(a, i, o) ==
    IF i >= Len(a) THEN o
    ELSE LET tok == a[i + 1]
             val == a[i + 2]
         IN  IF tok \in {A_o, A_output} /\ HasValue(a, i)
             THEN ArgLoop(a, i + 2, [o EXCEPT !.outPdf = val])
             ELSE IF tok \in {A_i, A_inputDir} /\ HasValue(a, i)
             THEN ArgLoop(a, i + 2, [o EXCEPT !.inputDir = val])
             ELSE IF tok \in {A_O, A_outputDir} /\ HasValue(a, i)
             THEN ArgLoop(a, i + 2, [o EXCEPT !.outputDir = val])
             ELSE IF tok \in {A_R, A_readpstBin} /\ HasValue(a, i)
             THEN ArgLoop(a, i + 2, [o EXCEPT !.readpstCli = val])
             ELSE IF tok \in {A_w, A_workdir} /\ HasValue(a, i)
             THEN ArgLoop(a, i + 2, [o EXCEPT !.workdir = val])
             ELSE IF tok = A_keepWorkdir
             THEN ArgLoop(a, i + 1, [o EXCEPT !.keepWorkdir = TRUE])
             ELSE IF tok = A_maxEmails /\ HasValue(a, i)
             THEN ArgLoop(a, i + 2, [o EXCEPT !.maxEmails = ParseIntOrZero(val)])
             ELSE ArgLoop(a, i + 1, o)

\* main up to the choice between batch and single-file mode: the help test,
\* the loop, then the positional argument
ParseArgs(a) ==
    IF \E k \in 1..Len(a) : a[k] \in {A_h, A_help}
    THEN [DefaultOpts EXCEPT !.help = TRUE]
    ELSE LET o == ArgLoop(a, FirstLoopIndex, DefaultOpts)
         IN  IF Len(a) >= 1 /\ a[1] # <<>> /\ ~StartsWithDash(a[1])
             THEN [o EXCEPT !.inputPst = a[1]]
             ELSE o

InitArgs ==
    /\ args \in ArgLists(MaxArgs)
    /\ opts = <<>>
    /\ argPc = "parse"
    /\ NsIdle /\ GrpIdle /\ LoadIdle /\ MainIdle /\ RpIdle

MainParseArgs ==
    /\ argPc = "parse"
    /\ opts' = ParseArgs(args)
    /\ argPc' = "done"
    /\ UNCHANGED <<args, nsVars, grpVars, loadVars, mainVars, rpVars>>

NextArgs == MainParseArgs

SpecArgs == InitArgs /\ [][NextArgs]_vars

\* ------------------------------------------------------------------------
\* main, the command line: properties
\* ------------------------------------------------------------------------

\* the options that take a value, by the option variable they set
ValueOptions ==
    [outPdf |-> {A_o, A_output}, inputDir |-> {A_i, A_inputDir},
     outputDir |-> {A_O, A_outputDir}, readpstCli |-> {A_R, A_readpstBin},
     workdir |-> {A_w, A_workdir}, maxEmails |-> {A_maxEmails}]

TakesValue(tok) == \E f \in DOMAIN ValueOptions : tok \in ValueOptions[f]

\* The places (counted from 1) at which an option name stands, reading the
\* line as the usage text gives it, "pst2pdf [<input.pst>] [options]": the
\* options follow the archive path when there is one and start the line when
\* there is none, and an option that takes a value is followed by it.
RECURSIVE OptionPlacesFrom(_, _)
OptionPlacesFrom(a, k) ==
    IF k > Len(a) THEN {}
    ELSE IF TakesValue(a[k]) /\ k < Len(a)
    THEN {k} \cup OptionPlacesFrom(a, k + 2)
    ELSE {k} \cup OptionPlacesFrom(a, k + 1)

OptionPlaces(a) ==
    IF Len(a) >= 1 /\ ~StartsWithDash(a[1])
    THEN OptionPlacesFrom(a, 2)
    ELSE OptionPlacesFrom(a, 1)

\* the places at which an option setting variable f stands with its value
PlacesSetting(a, f) ==
    { k \in OptionPlaces(a) : a[k] \in ValueOptions[f] /\ k < Len(a) }

LastOf(S) == CHOOSE k \in S : \A m \in S : m <= k

\* C9: every documented option takes effect wherever it stands in the
\* argument list, the first place included when no archive path is given:
\* --keep-workdir sets keepWorkdir, and an option with a value sets its
\* variable to that value (--max-emails to the number it spells); the last
\* occurrence counts.
C9_OptionsAnywhere ==
    argPc = "done" /\ ~opts.help =>
        /\ (\E k \in OptionPlaces(args) : args[k] = A_keepWorkdir)
               => opts.keepWorkdir
        /\ \A f \in DOMAIN ValueOptions \ {"maxEmails"} :
               PlacesSetting(args, f) # {} =>
                   opts[f] = args[LastOf(PlacesSetting(args, f)) + 1]
        /\ PlacesSetting(args, "maxEmails") # {} =>
               opts.maxEmails =
                   ParseIntOrZero(args[LastOf(PlacesSetting(args, "maxEmails")) + 1])

\* ------------------------------------------------------------------------
\* main and processSinglePst
\* ------------------------------------------------------------------------

\* names an input directory can hold
E_a == <<"a", ".", "p", "s", "t">>
E_B == <<"B", ".", "P", "S", "T">>
E_c == <<"c", ".", "p", "s", "t">>
E_notes == <<"n", ".", "t", "x", "t">>

EntryNames == {E_a, E_B, E_c, E_notes}

\* the listings of at most maxLen entries, each name once
Listings(maxLen) ==
    { l \in UNION { [1..n -> EntryNames] : n \in 0..maxLen } :
        \A i, j \in 1..Len(l) : i # j => l[i] # l[j] }

Str_pst == <<".", "p", "s", "t">>

\* f.toLowerCase().endsWith(".pst")
EndsWithPst(f) ==
    /\ Len(f) >= Len(Str_pst)
    /\ SubSeq(toLowerCase(f), Len(f) - Len(Str_pst) + 1, Len(f)) = Str_pst

\* entries.filter((f) => f.toLowerCase().endsWith(".pst"))
RECURSIVE FilterPst(_)
FilterPst(l) ==
    IF l = <<>> THEN <<>>
    ELSE IF EndsWithPst(Head(l)) THEN <<Head(l)>> \o FilterPst(Tail(l))
    ELSE FilterPst(Tail(l))

\* main() is called without a catch: a rejection of its promise is an
\* unhandled rejection, on which Node (15 and later) ends with this code
UnhandledRejectionExit == 1

otherVars == <<nsVars, grpVars, loadVars, argVars, rpVars>>

\* the local variables of processSinglePst that main leaves alone
fsVars == <<extractDir, emlListed, rendered>>

\* the arguments that bear on what main does after the argument loop
MainArgTokens == {A_i, A_w, A_keepWorkdir, A_h, A_archive, A_dir}

MainArgLists(maxLen) == UNION { [1..n -> MainArgTokens] : n \in 0..maxLen }

InitMain ==
    /\ \E a \in MainArgLists(MaxMainArgs) :
           LET o == ParseArgs(a)
           IN  /\ inputPst = o.inputPst
               /\ workdir = o.workdir
               /\ keepWorkdir = o.keepWorkdir
               /\ helpAsked = o.help
    /\ entries = <<>>
    /\ pstFiles = <<>>
    /\ loopIdx = 0
    /\ mainPc = "start"
    /\ procPc = "idle"
    /\ thrown = "none"
    /\ rmResult = "none"
    /\ workdirMade = FALSE
    /\ started = <<>>
    /\ results = <<>>
    /\ reported = <<>>
    /\ exitCode = 0
    /\ extractDir = {}
    /\ emlListed = {}
    /\ rendered = {}
    /\ NsIdle /\ GrpIdle /\ LoadIdle /\ ArgIdle /\ RpIdle

\* if (args.includes("-h") || args.includes("--help")) { ...; process.exit(0) }
MainHelp ==
    /\ mainPc = "start"
    /\ helpAsked
    /\ exitCode' = 0
    /\ mainPc' = "exit"
    /\ UNCHANGED <<inputPst, workdir, keepWorkdir, helpAsked, entries, pstFiles,
                   loopIdx, procPc, thrown, rmResult, workdirMade, started,
                   results, reported>>
    /\ UNCHANGED fsVars
    /\ UNCHANGED otherVars

\* if (!inputPst) { ...readdir, filter; if (pstFiles.length === 0) { ...; return }
MainBatchList ==
    /\ mainPc = "start"
    /\ ~helpAsked
    /\ inputPst = Null
    /\ \E listing \in Listings(MaxEntries) :
           /\ entries' = listing
           /\ pstFiles' = FilterPst(listing)
           /\ mainPc' = IF FilterPst(listing) = <<>> THEN "exit" ELSE "batchLoop"
    /\ UNCHANGED <<inputPst, workdir, keepWorkdir, helpAsked, loopIdx,
                   procPc, thrown, rmResult, workdirMade, started, results,
                   reported, exitCode>>
    /\ UNCHANGED fsVars
    /\ UNCHANGED otherVars

\* for (const name of pstFiles) { ... try { await processSinglePst(...
BatchNext ==
    /\ mainPc = "batchLoop"
    /\ loopIdx < Len(pstFiles)
    /\ started' = Append(started, pstFiles[loopIdx + 1])
    /\ procPc' = "begin"
    /\ thrown' = "none"
    /\ rmResult' = "none"
    /\ mainPc' = "awaitBatch"
    /\ UNCHANGED <<inputPst, workdir, keepWorkdir, helpAsked, entries, pstFiles,
                   loopIdx, workdirMade, results, reported, exitCode>>
    /\ UNCHANGED fsVars
    /\ UNCHANGED otherVars

\* the awaited promise resolves: the next turn of the loop
BatchResolved ==
    /\ mainPc = "awaitBatch"
    /\ procPc = "resolved"
    /\ results' = Append(results, "ok")
    /\ loopIdx' = loopIdx + 1
    /\ procPc' = "idle"
    /\ mainPc' = "batchLoop"
    /\ UNCHANGED <<inputPst, workdir, keepWorkdir, helpAsked, entries, pstFiles,
                   thrown, rmResult, workdirMade, started, reported, exitCode>>
    /\ UNCHANGED fsVars
    /\ UNCHANGED otherVars

\* a plausible slip: the call not wrapped in try/catch, so that the
\* rejection leaves the loop and main
BatchCaught_uncaught ==
    /\ mainPc = "awaitBatch"
    /\ procPc = "rejected"
    /\ results' = Append(results, thrown)
    /\ procPc' = "idle"
    /\ exitCode' = UnhandledRejectionExit
    /\ mainPc' = "exit"
    /\ UNCHANGED <<inputPst, workdir, keepWorkdir, helpAsked, entries, pstFiles,
                   loopIdx, thrown, rmResult, workdirMade, started, reported>>
    /\ UNCHANGED fsVars
    /\ UNCHANGED otherVars

\* } catch (e) { console.error(`Failed ${name}:`, ...) }: the next turn
BatchCaught ==
    /\ mainPc = "awaitBatch"
    /\ procPc = "rejected"
    /\ results' = Append(results, thrown)
    /\ reported' = Append(reported, pstFiles[loopIdx + 1])
    /\ loopIdx' = loopIdx + 1
    /\ procPc' = "idle"
    /\ mainPc' = "batchLoop"
    /\ UNCHANGED <<inputPst, workdir, keepWorkdir, helpAsked, entries, pstFiles,
                   thrown, rmResult, workdirMade, started, exitCode>>
    /\ UNCHANGED fsVars
    /\ UNCHANGED otherVars

\* the loop is through: return
BatchReturn ==
    /\ mainPc = "batchLoop"
    /\ loopIdx >= Len(pstFiles)
    /\ mainPc' = "exit"
    /\ UNCHANGED <<inputPst, workdir, keepWorkdir, helpAsked, entries, pstFiles,
                   loopIdx, procPc, thrown, rmResult, workdirMade, started,
                   results, reported, exitCode>>
    /\ UNCHANGED fsVars
    /\ UNCHANGED otherVars

\* if (!fs.existsSync(inputPst)) { console.error(...); process.exit(1) }
\* Whether the path exists is the file system's answer: either may happen.
MainSingleMissing ==
    /\ mainPc = "start"
    /\ ~helpAsked
    /\ inputPst # Null
    /\ reported' = Append(reported, inputPst)
    /\ exitCode' = 1
    /\ mainPc' = "exit"
    /\ UNCHANGED <<inputPst, workdir, keepWorkdir, helpAsked, entries, pstFiles,
                   loopIdx, procPc, thrown, rmResult, workdirMade, started,
                   results>>
    /\ UNCHANGED fsVars
    /\ UNCHANGED otherVars

\* the input exists: await processSinglePst(...)
MainSingleCall ==
    /\ mainPc = "start"
    /\ ~helpAsked
    /\ inputPst # Null
    /\ started' = Append(started, inputPst)
    /\ procPc' = "begin"
    /\ mainPc' = "awaitSingle"
    /\ UNCHANGED <<inputPst, workdir, keepWorkdir, helpAsked, entries, pstFiles,
                   loopIdx, thrown, rmResult, workdirMade, results, reported,
                   exitCode>>
    /\ UNCHANGED fsVars
    /\ UNCHANGED otherVars

\* the awaited promise resolves: main returns
SingleResolved ==
    /\ mainPc = "awaitSingle"
    /\ procPc = "resolved"
    /\ results' = Append(results, "ok")
    /\ procPc' = "idle"
    /\ mainPc' = "exit"
    /\ UNCHANGED <<inputPst, workdir, keepWorkdir, helpAsked, entries, pstFiles,
                   loopIdx, thrown, rmResult, workdirMade, started, reported,
                   exitCode>>
    /\ UNCHANGED fsVars
    /\ UNCHANGED otherVars

\* the awaited promise rejects: nothing catches it
SingleRejected ==
    /\ mainPc = "awaitSingle"
    /\ procPc = "rejected"
    /\ results' = Append(results, thrown)
    /\ procPc' = "idle"
    /\ exitCode' = UnhandledRejectionExit
    /\ mainPc' = "exit"
    /\ UNCHANGED <<inputPst, workdir, keepWorkdir, helpAsked, entries, pstFiles,
                   loopIdx, thrown, rmResult, workdirMade, started, reported>>
    /\ UNCHANGED fsVars
    /\ UNCHANGED otherVars

\* the archive processSinglePst is working on (its parameter inputPst)
CurrentArchive == started[Len(started)]

\* the message files the tool can write for an archive: none, one or two,
\* numbered, under the same names for every archive
ToolOutputs == { {}, {"1.eml"}, {"1.eml", "2.eml"} }

\* the files of the names written for an archive
WrittenBy(archive, names) == { [name |-> k, from |-> archive] : k \in names }

\* a directory after the files are written into it: a file of the same name
\* is replaced, every other file stays
WriteInto(dir, files) ==
    { f \in dir : \A g \in files : g.name # f.name } \cup files

\* what processSinglePst leaves alone
procFrame ==
    <<inputPst, workdir, keepWorkdir, helpAsked, entries, pstFiles, loopIdx,
      mainPc, started, results, reported, exitCode>>

\* a plausible slip: catch without finally, a throw leaving the function at
\* once
Throw_skipsFinally(step) ==
    /\ thrown' = step
    /\ procPc' = "rejected"

\* a step inside the try block throws: control goes to the finally block
Throw(step) ==
    /\ thrown' = step
    /\ procPc' = "finally"

\* if (!workdir) workdir = await fsp.mkdtemp(...): before the try block
ProcMkdtemp ==
    /\ procPc = "begin"
    /\ workdir = Null
    /\ \E ok \in BOOLEAN :
           IF ok
           THEN /\ workdirMade' = TRUE
                /\ extractDir' = {}
                /\ procPc' = "extract"
                /\ UNCHANGED thrown
           ELSE /\ thrown' = "mkdtemp"
                /\ procPc' = "rejected"
                /\ UNCHANGED <<workdirMade, extractDir>>
    /\ UNCHANGED <<rmResult, emlListed, rendered>>
    /\ UNCHANGED procFrame
    /\ UNCHANGED otherVars

\* a working directory was given: straight into the try block, with the
\* directory as the archives before left it
ProcGivenWorkdir ==
    /\ procPc = "begin"
    /\ workdir # Null
    /\ procPc' = "extract"
    /\ UNCHANGED <<thrown, rmResult, workdirMade>>
    /\ UNCHANGED fsVars
    /\ UNCHANGED procFrame
    /\ UNCHANGED otherVars

\* await runReadPst(...): mkdir of the eml folder, then the tool; it
\* resolves, or rejects because mkdir failed, the tool could not be
\* launched, or the tool ended with a code other than 0. mkdir with
\* recursive: true leaves an existing folder as it is; a tool that ran wrote
\* its message files into it (all of them, or some when it failed).
ProcExtract ==
    /\ procPc = "extract"
    /\ \E out \in {"ok", "mkdir", "launch", "exitCode"} :
           /\ workdirMade' = IF out = "mkdir" THEN workdirMade ELSE TRUE
           /\ IF out \in {"ok", "exitCode"}
              THEN \E names \in ToolOutputs :
                       extractDir' =
                           WriteInto(extractDir,
                                     WrittenBy(CurrentArchive, names))
              ELSE UNCHANGED extractDir
           /\ IF out = "ok"
              THEN procPc' = "list" /\ UNCHANGED thrown
              ELSE Throw(out)
    /\ UNCHANGED <<rmResult, emlListed, rendered>>
    /\ UNCHANGED procFrame
    /\ UNCHANGED otherVars

\* listFilesRecursively(extractDir, [".eml"]): every .eml file under the
\* folder, whoever wrote it
ListFiles(dir) == dir

\* await listFilesRecursively(...): readdir may throw
ProcList ==
    /\ procPc = "list"
    /\ \E ok \in BOOLEAN :
           IF ok
           THEN /\ emlListed' = ListFiles(extractDir)
                /\ procPc' = "load"
                /\ UNCHANGED thrown
           ELSE Throw("list") /\ UNCHANGED emlListed
    /\ UNCHANGED <<rmResult, workdirMade, extractDir, rendered>>
    /\ UNCHANGED procFrame
    /\ UNCHANGED otherVars

\* await parseEmails(...); groupByThread(...): neither throws; the records
\* are those of the files listed (all of them taken to load)
ProcLoadGroup ==
    /\ procPc = "load"
    /\ rendered' = emlListed
    /\ procPc' = "render"
    /\ UNCHANGED <<thrown, rmResult, workdirMade, extractDir, emlListed>>
    /\ UNCHANGED procFrame
    /\ UNCHANGED otherVars

\* await renderPdf(...): resolves on finish, rejects on a stream error
ProcRender ==
    /\ procPc = "render"
    /\ \E ok \in BOOLEAN :
           IF ok THEN procPc' = "finally" /\ UNCHANGED thrown ELSE Throw("render")
    /\ UNCHANGED <<rmResult, workdirMade>>
    /\ UNCHANGED fsVars
    /\ UNCHANGED procFrame
    /\ UNCHANGED otherVars

\* what a later call finds under path.join(workdir, "eml") of a folder that
\* was not removed: the folder as it is when the directory was given with
\* -w; nothing of a temporary directory, whose path no later call is given
LeftFor(dir) == IF workdir # Null THEN dir ELSE {}

\* finally { if (!keepWorkdir) { try { await fsp.rm(...) } catch (_) {} }
\* else { console.log(...) } }, after which the function resolves or
\* throws what the try block threw
ProcFinally ==
    /\ procPc = "finally"
    /\ IF keepWorkdir
       THEN /\ UNCHANGED <<rmResult, workdirMade>>
            /\ extractDir' = LeftFor(extractDir)
       ELSE \E ok \in BOOLEAN :
                /\ rmResult' = IF ok THEN "ok" ELSE "failed"
                /\ workdirMade' = IF ok THEN FALSE ELSE workdirMade
                /\ extractDir' = IF ok THEN {} ELSE LeftFor(extractDir)
    /\ emlListed' = {}
    /\ rendered' = {}
    /\ procPc' = IF thrown = "none" THEN "resolved" ELSE "rejected"
    /\ UNCHANGED thrown
    /\ UNCHANGED procFrame
    /\ UNCHANGED otherVars

NextMain ==
    \/ MainHelp
    \/ MainBatchList
    \/ BatchNext
    \/ BatchResolved
    \/ BatchCaught
    \/ BatchReturn
    \/ MainSingleMissing
    \/ MainSingleCall
    \/ SingleResolved
    \/ SingleRejected
    \/ ProcMkdtemp
    \/ ProcGivenWorkdir
    \/ ProcExtract
    \/ ProcList
    \/ ProcLoadGroup
    \/ ProcRender
    \/ ProcFinally

SpecMain == InitMain /\ [][NextMain]_vars

\* Every await of main and processSinglePst settles (the extraction tool
\* ends, the streams finish or fail), so a step that can be taken is taken.
FairSpecMain == SpecMain /\ WF_vars(NextMain)

\* ------------------------------------------------------------------------
\* main and processSinglePst: properties
\* ------------------------------------------------------------------------

IsPrefix(p, q) == Len(p) <= Len(q) /\ SubSeq(q, 1, Len(p)) = p

\* the archives processSinglePst has been called for and has ended for
Ended == SubSeq(started, 1, Len(results))

\* C7: in batch mode every .pst archive of the input directory is
\* eventually processed, one at a time and in listing order, whether or not
\* an earlier archive failed: the archives started are always the first of
\* the listing, at most one has not ended, and once the loop is entered the
\* run ends with every archive started and ended.
C7_BatchProcessesAll ==
    /\ [](mainPc \in {"batchLoop", "awaitBatch"} =>
             /\ IsPrefix(started, pstFiles)
             /\ Len(started) - Len(results) \in {0, 1})
    /\ (mainPc = "batchLoop") ~>
           (/\ mainPc = "exit"
            /\ started = pstFiles
            /\ Len(results) = Len(pstFiles)
            /\ \A k \in 1..Len(entries) :
                   EndsWithPst(entries[k]) =>
                       \E j \in 1..Len(started) : started[j] = entries[k])

\* a batch of two ended: the first archive failed in the extraction tool or
\* in rendering and was reported, the second was processed after it
C7_Witness ==
    /\ mainPc = "exit"
    /\ Len(pstFiles) = 2
    /\ Len(results) = 2
    /\ results[1] \in {"launch", "exitCode", "render"}
    /\ reported = <<pstFiles[1]>>
    /\ results[2] = "ok"

\* the run met a missing input or an archive that failed
RunFailed ==
    \/ reported # <<>>
    \/ \E k \in 1..Len(results) : results[k] # "ok"

\* the failures the claim names: the input is missing, the tool cannot be
\* launched, the extraction fails, the rendering fails
NamedFailure ==
    \/ mainPc = "exit" /\ inputPst # Null /\ ~helpAsked /\ started = <<>>
    \/ \E k \in 1..Len(results) : results[k] \in {"launch", "exitCode", "render"}

\* C8: the run ends with exit code 1 when a required input is missing or an
\* archive fails with an unrecoverable error, in single-file mode and in
\* batch mode alike, and with exit code 0 otherwise (no archives found in
\* batch mode included).
C8_ExitCode ==
    mainPc = "exit" =>
        /\ NamedFailure => exitCode = 1
        /\ ~RunFailed => exitCode = 0

\* C10: when processSinglePst ends after entering its try block, whether it
\* resolves or rejects, fsp.rm of the working directory has been attempted
\* exactly when --keep-workdir was not read; with --keep-workdir the
\* directory made is still in place; and the function rejects exactly when a
\* step of the try block threw, whatever fsp.rm did.
C10_Cleanup ==
    procPc \in {"resolved", "rejected"} /\ thrown # "mkdtemp" =>
        /\ (rmResult # "none") <=> ~keepWorkdir
        /\ keepWorkdir /\ thrown # "mkdir" => workdirMade
        /\ (procPc = "rejected") <=> (thrown # "none")

\* rendering failed, the removal was attempted and failed too, and the
\* function rejects with the rendering failure
C10_Witness ==
    /\ procPc = "rejected"
    /\ thrown = "render"
    /\ ~keepWorkdir
    /\ rmResult = "failed"
    /\ workdirMade

\* C13: in batch mode, the message files listed, loaded and rendered for an
\* archive are all files the extraction tool wrote for that same archive,
\* whatever the options.
C13_OwnFilesOnly ==
    mainPc = "awaitBatch" =>
        \A f \in emlListed \cup rendered : f.from = CurrentArchive

\* ------------------------------------------------------------------------
\* The program: any one of the runs above
\* ------------------------------------------------------------------------

Init ==
    \/ InitNormalize \/ InitGroup \/ InitReadPst \/ InitLoad \/ InitArgs
    \/ InitMain

Next ==
    \/ NextNormalize \/ NextGroup \/ NextReadPst \/ NextLoad \/ NextArgs
    \/ NextMain

Spec == Init /\ [][Next]_vars

============================================================================
